---------------------------- MODULE Spec2Model ----------------------------
(***************************************************************************)
(* Gmail MCP server: the tool dispatcher (server.py: call_tool), the Gmail *)
(* client operations behind it (gmail_client.py: get_unread_emails,        *)
(* create_draft_reply) and the recipient helpers they use.                 *)
(*                                                                         *)
(* Text is a sequence of one-character strings, so that parsing, trimming  *)
(* and concatenation are computed character by character.  Address header  *)
(* values range over Alphabet; the address parser is email.utils.parseaddr *)
(* as implemented by CPython 3.11 (email/_parseaddr.py), restricted to the *)
(* branches that fields over Alphabet can take (no quoted strings,         *)
(* comments, groups or domain literals).                                   *)
(***************************************************************************)
EXTENDS Integers, Sequences, FiniteSets, TLC

(***************************************************************************)
(* Bounds of the model.                                                    *)
(***************************************************************************)
\* longest text handed directly to the address helpers
MaxLen == 3
\* most message ids the provider returns from one list call
MaxMsgs == 2

(***************************************************************************)
(* Text.                                                                   *)
(***************************************************************************)
Letters == {"a", "b"}
Alphabet == Letters \cup {"@", " ", "<", ">", ".", ","}

RECURSIVE StringsOfLen(_)
StringsOfLen(n) ==
    IF n = 0 THEN {<<>>}
    ELSE {Append(s, c) : s \in StringsOfLen(n - 1), c \in Alphabet}

Strings(n) == UNION {StringsOfLen(k) : k \in 0..n}

\* str.strip() characters that occur over Alphabet and in header values
Whitespace == {" ", "\t", "\n", "\r"}

RECURSIVE LStrip(_)
LStrip(s) ==
    IF s # <<>> /\ Head(s) \in Whitespace THEN LStrip(Tail(s)) ELSE s

RECURSIVE RStrip(_)
RStrip(s) ==
    IF s # <<>> /\ s[Len(s)] \in Whitespace
    THEN RStrip(SubSeq(s, 1, Len(s) - 1))
    ELSE s

Strip(s) == RStrip(LStrip(s))

Contains(s, c) == \E i \in 1..Len(s) : s[i] = c

\* whether the sequence part occurs contiguously in whole
HasInfix(whole, part) ==
    \E i \in 0..(Len(whole) - Len(part)) :
        SubSeq(whole, i + 1, i + Len(part)) = part

RECURSIVE Join(_)
Join(pieces) ==
    IF pieces = <<>> THEN <<>> ELSE Head(pieces) \o Join(Tail(pieces))

(***************************************************************************)
(* email.utils.parseaddr (email/_parseaddr.py, AddrlistClass).  Positions  *)
(* are 1-based: pos <= Len(field) is Python's pos < len(field).            *)
(***************************************************************************)
specials == {"(", ")", "<", ">", "@", ",", ":", ";", ".", "\"", "[", "]"}
LWS == {" ", "\t"}
CR == {"\r", "\n"}
FWS == LWS \cup CR
atomends == specials \cup LWS \cup CR
phraseends == atomends \ {"."}

RECURSIVE gotonext(_, _)
gotonext(field, pos) ==
    IF pos <= Len(field) /\ field[pos] \in LWS \cup CR
    THEN LET r == gotonext(field, pos + 1)
         IN  [pos |-> r.pos,
              ws  |-> IF field[pos] \in CR THEN r.ws ELSE <<field[pos]>> \o r.ws]
    ELSE [pos |-> pos, ws |-> <<>>]

RECURSIVE getatom(_, _, _)
getatom(field, pos, ends) ==
    IF pos <= Len(field) /\ field[pos] \notin ends
    THEN LET r == getatom(field, pos + 1, ends)
         IN  [pos |-> r.pos, val |-> <<field[pos]>> \o r.val]
    ELSE [pos |-> pos, val |-> <<>>]

RECURSIVE getphraselist(_, _)
getphraselist(field, pos) ==
    IF pos > Len(field) THEN [pos |-> pos, plist |-> <<>>]
    ELSE IF field[pos] \in FWS THEN getphraselist(field, pos + 1)
    ELSE IF field[pos] \in phraseends THEN [pos |-> pos, plist |-> <<>>]
    ELSE LET a == getatom(field, pos, phraseends)
             r == getphraselist(field, a.pos)
         IN  [pos |-> r.pos, plist |-> <<a.val>> \o r.plist]

RECURSIVE getdomain_loop(_, _, _)
getdomain_loop(field, pos, sdlist) ==
    IF pos > Len(field) THEN [pos |-> pos, val |-> sdlist]
    ELSE IF field[pos] \in LWS THEN getdomain_loop(field, pos + 1, sdlist)
    ELSE IF field[pos] = "." THEN getdomain_loop(field, pos + 1, sdlist \o <<".">>)
    ELSE IF field[pos] = "@" THEN [pos |-> pos, val |-> <<>>]
    ELSE IF field[pos] \in atomends THEN [pos |-> pos, val |-> sdlist]
    ELSE LET a == getatom(field, pos, atomends)
         IN  getdomain_loop(field, a.pos, sdlist \o a.val)

getdomain(field, pos) == getdomain_loop(field, pos, <<>>)

\* "if aslist and not aslist[-1].strip(): aslist.pop()"
PopBlank(aslist) ==
    IF aslist # <<>> /\ Strip(aslist[Len(aslist)]) = <<>>
    THEN SubSeq(aslist, 1, Len(aslist) - 1)
    ELSE aslist

RECURSIVE getaddrspec_loop(_, _, _)
getaddrspec_loop(field, pos, aslist) ==
    IF pos > Len(field) THEN [pos |-> pos, aslist |-> aslist]
    ELSE IF field[pos] = "."
    THEN LET g == gotonext(field, pos + 1)
         IN  getaddrspec_loop(field, g.pos, Append(PopBlank(aslist), <<".">>))
    ELSE IF field[pos] \in atomends
    THEN [pos |-> pos, aslist |-> PopBlank(aslist)]
    ELSE LET a == getatom(field, pos, atomends)
             g == gotonext(field, a.pos)
         IN  getaddrspec_loop(field, g.pos,
                 Append(aslist, a.val) \o (IF g.ws # <<>> THEN <<g.ws>> ELSE <<>>))

\* getaddrspec after the "@": the domain d is appended to the local part
getaddrspec_domain(local, d) ==
    IF d.val = <<>>
    THEN [pos |-> d.pos, val |-> <<>>]
    ELSE [pos |-> d.pos, val |-> local \o <<"@">> \o d.val]

\* getaddrspec after its loop, which ended as l
getaddrspec_tail(field, l) ==
    IF l.pos > Len(field) \/ field[l.pos] # "@"
    THEN [pos |-> l.pos, val |-> Join(l.aslist)]
    ELSE getaddrspec_domain(Join(l.aslist),
                            getdomain(field, gotonext(field, l.pos + 1).pos))

getaddrspec(field, pos) ==
    getaddrspec_tail(field, getaddrspec_loop(field, gotonext(field, pos).pos, <<>>))

RECURSIVE getrouteaddr_loop(_, _, _)
getrouteaddr_loop(field, pos, expectroute) ==
    IF pos > Len(field) THEN <<>>
    ELSE IF expectroute
    THEN getrouteaddr_loop(field, gotonext(field, getdomain(field, pos).pos).pos, FALSE)
    ELSE IF field[pos] = ">" THEN <<>>
    ELSE IF field[pos] = "@"
    THEN getrouteaddr_loop(field, gotonext(field, pos + 1).pos, TRUE)
    ELSE IF field[pos] = ":"
    THEN getrouteaddr_loop(field, gotonext(field, pos + 1).pos, FALSE)
    ELSE getaddrspec(field, pos).val

\* called with field[pos] = "<"; the value is the addr-spec inside the brackets
getrouteaddr(field, pos) ==
    getrouteaddr_loop(field, gotonext(field, pos + 1).pos, FALSE)

\* getaddress once the phrase list ph is read and the white space after it is
\* skipped up to p; the value is the list of addresses (address parts only)
getaddress_branch(field, oldpos, plist, p) ==
    IF p > Len(field)
    THEN (IF plist # <<>> THEN <<plist[1]>> ELSE <<>>)
    ELSE IF field[p] \in {".", "@"} THEN <<getaddrspec(field, oldpos).val>>
    ELSE IF field[p] = "<" THEN <<getrouteaddr(field, p)>>
    ELSE IF plist # <<>> THEN <<plist[1]>>
    ELSE <<>>

getaddress_phrase(field, oldpos, ph) ==
    getaddress_branch(field, oldpos, ph.plist, gotonext(field, ph.pos).pos)

getaddress_from(field, oldpos) ==
    getaddress_phrase(field, oldpos, getphraselist(field, oldpos))

getaddress(field, pos) == getaddress_from(field, gotonext(field, pos).pos)

\* addrs[0][1] of the address list, '' for an empty list
first_address(addrs) == IF addrs = <<>> THEN <<>> ELSE addrs[1]

\* the address part of parseaddr(addr)
parseaddr(addr) ==
    IF addr = <<>> THEN <<>> ELSE first_address(getaddress(addr, 1))

(***************************************************************************)
(* re.search(r"[A-Z0-9._%+-]+@[A-Z0-9.-]+\.[A-Z]{2,}", s, re.IGNORECASE)   *)
(* over Alphabet: both character classes are the letters and the dot.      *)
(***************************************************************************)
LocalChars == Letters \cup {"."}
DomainChars == Letters \cup {"."}

RECURSIVE RunEnd(_, _, _)
\* the last position of the longest run of chars of class from pos (pos - 1
\* when field[pos] is not of the class)
RunEnd(s, pos, class) ==
    IF pos <= Len(s) /\ s[pos] \in class THEN RunEnd(s, pos + 1, class) ELSE pos - 1

\* the end of the match starting at i, or 0 when none starts there
MatchEnd(s, i) ==
    LET localEnd == RunEnd(s, i, LocalChars)
        at       == localEnd + 1
        domEnd   == RunEnd(s, at + 1, DomainChars)
        \* positions of a dot that ends a non-empty domain part and is
        \* followed by two letters at least
        dots     == {d \in (at + 2)..domEnd :
                        /\ s[d] = "."
                        /\ RunEnd(s, d + 1, Letters) >= d + 2}
    IN  IF localEnd >= i /\ at <= Len(s) /\ s[at] = "@" /\ dots # {}
        THEN LET d == CHOOSE x \in dots : \A y \in dots : y <= x
             IN  RunEnd(s, d + 1, Letters)
        ELSE 0

\* m.group(0) of the leftmost match, or '' when there is none
regex_search(s) ==
    LET starts == {i \in 1..Len(s) : MatchEnd(s, i) # 0}
    IN  IF starts = {} THEN <<>>
        ELSE LET i == CHOOSE x \in starts : \A y \in starts : x <= y
             IN  SubSeq(s, i, MatchEnd(s, i))

(***************************************************************************)
(* The recipient helpers.                                                  *)
(***************************************************************************)
\* "bool(addr) and ('@' in addr) and (' ' not in addr)"
valid_parsed(addr) == addr # <<>> /\ Contains(addr, "@") /\ ~Contains(addr, " ")

is_valid_email_address(value) ==
    IF value = <<>> THEN FALSE ELSE valid_parsed(parseaddr(value))

\* "return addr if addr and is_valid_email_address(addr) else ''"
sanitize_checked(addr) ==
    IF addr # <<>> /\ is_valid_email_address(addr) THEN addr ELSE <<>>

\* "if not addr:" the fallback to an email-like token of the recipient
sanitize_fallback(recipient, addr) ==
    sanitize_checked(IF addr = <<>> THEN regex_search(recipient) ELSE addr)

sanitize_single_recipient(recipient) ==
    IF recipient = <<>> THEN <<>>
    ELSE sanitize_fallback(recipient, Strip(parseaddr(Strip(recipient))))

(***************************************************************************)
(* Values.  None stands for Python's None in a position that holds an id   *)
(* or a name, NoneText in a position that holds text.  An optional key of  *)
(* a JSON object is a sequence of no or one value.                         *)
(***************************************************************************)
None == "None"
NoneText == <<"None">>
Truthy(text) == text # NoneText /\ text # <<>>

Lower(c) ==
    CASE c = "R" -> "r"
      [] c = "E" -> "e"
      [] c = "H" -> "h"
      [] OTHER   -> c

LowerText(s) == [i \in 1..Len(s) |-> Lower(s[i])]

StartsWith(s, prefix) ==
    Len(s) >= Len(prefix) /\ SubSeq(s, 1, Len(prefix)) = prefix

Header(name, value) == [name |-> name, value |-> value]

\* the headers of one name, one per value given
HeadersOf(name, values) == [i \in 1..Len(values) |-> Header(name, values[i])]

(***************************************************************************)
(* Header lookup.                                                          *)
(***************************************************************************)
RECURSIVE header_value(_, _)
header_value(headers, name) ==
    IF headers = <<>> THEN <<>>
    ELSE IF Head(headers).name = name THEN Head(headers).value
    ELSE header_value(Tail(headers), name)

\* next((h['value'] for h in headers if h['name'] == name), default)
RECURSIVE first_header(_, _, _)
first_header(headers, name, default) ==
    IF headers = <<>> THEN default
    ELSE IF Head(headers).name = name THEN Head(headers).value
    ELSE first_header(Tail(headers), name, default)

\* Python's "a or b" on text
OrElse(a, b) == IF a # <<>> THEN a ELSE b

extract_reply_recipient(headers) ==
    OrElse(sanitize_single_recipient(header_value(headers, "Reply-To")),
           sanitize_single_recipient(header_value(headers, "From")))

(***************************************************************************)
(* Exceptions are the words of their message.                              *)
(***************************************************************************)
ErrNoRecipient ==
    <<"Cannot", "create", "draft", "reply:", "could", "not", "extract", "a",
      "valid", "recipient", "from", "Reply-To/From">>
ErrInvalidTo ==
    <<"Cannot", "create", "draft:", "extracted", "'To'", "recipient", "is",
      "empty/invalid">>
ErrInt == <<"invalid", "literal", "for", "int()">>
ErrPadding == <<"Incorrect", "padding">>
ErrUtf8 == <<"'utf-8'", "codec", "can't", "decode", "byte">>
ErrKeyPayload == <<"'payload'">>
ErrProvider == <<"HttpError", "503">>
NoException == <<>>

Ok(v) == [ok |-> TRUE, val |-> v, exc |-> NoException]
Raise(e) == [ok |-> FALSE, val |-> <<>>, exc |-> e]

(***************************************************************************)
(* The message encoder (_build_raw_email).  The MIME message is its header *)
(* list and its content; its serialisation to base64url bytes is not       *)
(* modelled further.                                                       *)
(***************************************************************************)
\* the message built once the recipient is sanitized
build_message(to_sanitized, subject, body, in_reply_to, references) ==
    IF to_sanitized = <<>> THEN Raise(ErrInvalidTo)
    ELSE Ok([headers |->
                <<Header("To", to_sanitized),
                  Header("Subject", IF Truthy(subject) THEN subject ELSE <<>>)>>
                \o (IF Truthy(in_reply_to)
                    THEN <<Header("In-Reply-To", in_reply_to)>> ELSE <<>>)
                \o (IF Truthy(references)
                    THEN <<Header("References", references)>> ELSE <<>>),
             content |-> IF body = None THEN "" ELSE body])

\* build_raw_email trusting its caller to have sanitized the recipient
build_raw_email_trusting(to, subject, body, in_reply_to, references) ==
    build_message(to, subject, body, in_reply_to, references)

build_raw_email(to, subject, body, in_reply_to, references) ==
    build_message(sanitize_single_recipient(to), subject, body, in_reply_to, references)

(***************************************************************************)
(* The reply composer (create_draft_reply, after the original is fetched). *)
(***************************************************************************)
RePrefix == <<"r", "e", ":">>

reply_subject(headers) ==
    LET original_subject == header_value(headers, "Subject")
    IN  IF StartsWith(LowerText(original_subject), RePrefix)
        THEN original_subject
        ELSE Strip(<<"R", "e", ":", " ">> \o original_subject)

\* threading_headers without the append of in_reply_to to references
threading_headers_passthrough(headers) ==
    [in_reply_to |-> IF header_value(headers, "Message-ID") = <<>> THEN NoneText
                     ELSE header_value(headers, "Message-ID"),
     references  |-> IF header_value(headers, "References") = <<>> THEN NoneText
                     ELSE header_value(headers, "References")]

\* "Threading headers": in_reply_to and references handed to the encoder
threading_headers(headers) ==
    LET mid         == header_value(headers, "Message-ID")
        refs        == header_value(headers, "References")
        in_reply_to == IF mid = <<>> THEN NoneText ELSE mid
        references  == IF refs = <<>> THEN NoneText ELSE refs
    IN  [in_reply_to |-> in_reply_to,
         references  |->
            IF Truthy(in_reply_to)
            THEN (IF Truthy(references)
                  THEN Strip(references \o <<" ">> \o in_reply_to)
                  ELSE in_reply_to)
            ELSE references]

\* the createDraft body around the raw message, once that is built
draft_body(raw, thread_id) ==
    IF raw.ok THEN Ok([message |-> [raw |-> raw.val, threadId |-> thread_id]])
    ELSE raw

\* reply_to_recipient without its "if not to_addr" check
reply_to_recipient_unchecked(to_addr, headers, th, thread_id, reply_body) ==
    draft_body(build_raw_email(to_addr, reply_subject(headers), reply_body,
                               th.in_reply_to, th.references),
               thread_id)

\* create_draft_reply once the recipient to_addr is extracted
reply_to_recipient(to_addr, headers, th, thread_id, reply_body) ==
    IF to_addr = <<>> THEN Raise(ErrNoRecipient)
    ELSE draft_body(build_raw_email(to_addr, reply_subject(headers), reply_body,
                                    th.in_reply_to, th.references),
                    thread_id)

reply_to_headers(headers, thread_id, reply_body) ==
    reply_to_recipient(extract_reply_recipient(headers), headers,
                       threading_headers(headers), thread_id, reply_body)

\* original: the provider's answer; the value is the createDraft body
compose_draft(original, thread_id, reply_body) ==
    reply_to_headers(IF original.payload = <<>> THEN <<>>
                     ELSE original.payload[1].headers,
                     thread_id, reply_body)

(***************************************************************************)
(* The body decoder (_get_email_body).  base64.urlsafe_b64decode(data)     *)
(* .decode('utf-8') over the inline data values the provider returns here. *)
(***************************************************************************)
BodyLimit == 500

b64decode_utf8(data) ==
    CASE data = "aGk="     -> Ok(<<"h", "i">>)
      [] data = "aGVsbG8=" -> Ok(<<"h", "e", "l", "l", "o">>)
      [] data = "PGI-"     -> Ok(<<"<", "b", ">">>)
      [] data = "_w=="     -> Raise(ErrUtf8)
      [] OTHER             -> Raise(ErrPadding)

\* the first text/plain part that carries inline data, as a sequence of no or one
RECURSIVE first_plain_part(_)
first_plain_part(parts) ==
    IF parts = <<>> THEN <<>>
    ELSE IF Head(parts).mimeType = "text/plain" /\ Head(parts).body.data # <<>>
    THEN <<Head(parts)>>
    ELSE first_plain_part(Tail(parts))

Truncate(r) ==
    IF r.ok THEN Ok(SubSeq(r.val, 1, IF Len(r.val) < BodyLimit THEN Len(r.val) ELSE BodyLimit))
    ELSE r

get_email_body(payload) ==
    IF payload.parts # <<>>
    THEN LET found == first_plain_part(payload.parts[1])
         IN  IF found = <<>> THEN Ok(<<>>)
             ELSE Truncate(b64decode_utf8(found[1].body.data[1]))
    ELSE IF payload.body # <<>> /\ payload.body[1].data # <<>>
    THEN Truncate(b64decode_utf8(payload.body[1].data[1]))
    ELSE Ok(<<>>)

NoSubject == <<"N", "o", " ", "S", "u", "b", "j", "e", "c", "t">>
Unknown == <<"U", "n", "k", "n", "o", "w", "n">>

\* the body of the loop of get_unread_emails for one fetched message
email_summary(message) ==
    IF message.payload = <<>> THEN Raise(ErrKeyPayload)
    ELSE LET payload == message.payload[1]
             body    == get_email_body(payload)
         IN  IF ~body.ok THEN body
             ELSE Ok([id       |-> message.id,
                      threadId |-> message.threadId,
                      subject  |-> first_header(payload.headers, "Subject", NoSubject),
                      sender   |-> first_header(payload.headers, "From", Unknown),
                      snippet  |-> IF message.snippet = <<>> THEN "" ELSE message.snippet[1],
                      body     |-> body.val])

(***************************************************************************)
(* What the provider can answer.                                           *)
(***************************************************************************)
IdTable == <<"m1", "m2", "m3", "m4">>
Ids == {IdTable[i] : i \in 1..MaxMsgs}

RECURSIVE Listings(_)
\* the listings of at most n ids, no id twice
Listings(n) ==
    IF n = 0 THEN {<<>>}
    ELSE LET shorter == Listings(n - 1)
         IN  shorter \cup
             UNION {{Append(s, i) : i \in Ids \ {s[k] : k \in 1..Len(s)}} :
                    s \in {t \in shorter : Len(t) = n - 1}}

Inline(data) == [data |-> data]

\* messages().get(id, format='full') answers for a listed id
ListedMessages(id) ==
    {[id |-> id, threadId |-> "t1", snippet |-> <<"hi">>,
      payload |-> <<[headers |-> <<Header("From", <<"a", "@", "b">>),
                                   Header("Subject", <<"H", "i">>)>>,
                     parts   |-> <<>>,
                     body    |-> <<Inline(<<"aGk=">>)>>]>>],
     [id |-> id, threadId |-> "t1", snippet |-> <<>>,
      payload |-> <<[headers |-> <<>>,
                     parts   |-> << <<[mimeType |-> "text/html",
                                       body |-> Inline(<<"PGI-">>)],
                                      [mimeType |-> "text/plain",
                                       body |-> Inline(<<"aGVsbG8=">>)]>> >>,
                     body    |-> <<>>]>>],
     [id |-> id, threadId |-> "t1", snippet |-> <<>>,
      payload |-> <<[headers |-> <<Header("Subject", <<"H", "i">>)>>,
                     parts   |-> << <<[mimeType |-> "text/plain",
                                       body |-> Inline(<<"aGk">>)]>> >>,
                     body    |-> <<>>]>>],
     [id |-> id, threadId |-> "t1", snippet |-> <<>>,
      payload |-> <<[headers |-> <<>>, parts |-> <<>>, body |-> <<>>]>>],
     [id |-> id, threadId |-> "t1", snippet |-> <<"hi">>, payload |-> <<>>]}

\* header values of the original message: per header name, the values of the
\* headers of that name in the order the provider lists them
ReplyToValues ==
    {<<>>, << <<>> >>, << <<"b", "@", "b">> >>, << <<"a", " ", "b">> >>}
FromValues ==
    {<<>>,
     << <<"a", " ", "<", "a", "@", "b", ">">> >>,
     << <<"a", "@", "b", ",", " ", "b", "@", "a">> >>,
     << <<",", "a", "@", "b", ".", "a", "a">> >>,
     << <<"a", "@">> >>,
     << <<"a", "@">>, <<"b", "@", "a">> >>}
SubjectValues ==
    {<<>>, << <<"H", "i">> >>, << <<"R", "E", ":", " ", "x">> >>}
MessageIdValues ==
    {<<>>, << <<>> >>, << <<"<", "1", ">">> >>, << <<"<", "1", ">", " ">> >>}
ReferencesValues ==
    {<<>>, << <<>> >>, << <<"<", "0", ">">> >>, << <<" ", "<", "0", ">">> >>}

\* messages().get(id, format='metadata', metadataHeaders=[...]) answers
OriginalMessages(id) ==
    {[id |-> id,
      payload |-> <<[headers |-> HeadersOf("Reply-To", rt) \o HeadersOf("From", fr)
                                 \o HeadersOf("Subject", su)
                                 \o HeadersOf("Message-ID", mi)
                                 \o HeadersOf("References", re)]>>] :
        rt \in ReplyToValues, fr \in FromValues, su \in SubjectValues,
        mi \in MessageIdValues, re \in ReferencesValues}
    \cup {[id |-> id, payload |-> <<>>]}

NoMessage == [id |-> None, payload |-> <<>>]

(***************************************************************************)
(* Requests.  arguments is a sequence: empty for None, else the one map.   *)
(***************************************************************************)
DEFAULT_MAX_RESULTS == 10

ToolNames == {"get_unread_emails", "create_draft_reply", "send_email"}

Num(n) == [num |-> n]
Str(t) == [str |-> t]

EmptyMap == [k \in {} |-> None]

ReplyKeys == {"message_id", "thread_id", "reply_body"}

ArgumentMaps ==
    {[max_results |-> v] : v \in {Num(1), Num(MaxMsgs), Str("abc")}}
    \cup {[k \in D |-> v[k]] :
            D \in SUBSET ReplyKeys,
            v \in [message_id : {"", "m1"}, thread_id : {"t1"}, reply_body : {"hi"}]}

Arguments == {<<>>} \cup {<<m>> : m \in ArgumentMaps}

\* arguments.get(key, default)
Get(args, key, default) == IF key \in DOMAIN args THEN args[key] ELSE default

\* int(v) of a JSON number, or of a JSON string that is no numeral
int(v) == IF "num" \in DOMAIN v THEN Ok(v.num) ELSE Raise(ErrInt)

Falsy(v) == v = None \/ v = ""

(***************************************************************************)
(* Responses: [TextContent(type="text", text=json.dumps(...))].  kind      *)
(* tells the {"error": message} object from a success payload.             *)
(***************************************************************************)
NoResponse == [type |-> "none", kind |-> "none", text |-> <<>>]
Success(payload) == [type |-> "text", kind |-> "payload", text |-> payload]
Error(message) == [type |-> "text", kind |-> "error", text |-> message]

ErrMissing == <<"Missing", "required", "parameters">>
UnknownTool(name) == <<"Unknown", "tool:", name>>
ToolFailed(e) == <<"Tool", "execution", "failed:">> \o e

Returned(response) == [response |-> response, raised |-> NoException]

\* call_tool_except as "except ValueError as e" would behave: any other
\* exception leaves call_tool
call_tool_except_narrow(e) ==
    IF e \in {ErrNoRecipient, ErrInvalidTo, ErrInt}
    THEN Returned(Error(ToolFailed(e)))
    ELSE [response |-> NoResponse, raised |-> e]

\* "except Exception as e" of call_tool
call_tool_except(e) == Returned(Error(ToolFailed(e)))

\* get_unread_emails_except as a handler that logs and raises again
get_unread_emails_except_reraise(e, emails) == Raise(e)

\* get_unread_emails_except as a handler that returns what was fetched so far
get_unread_emails_except_partial(e, emails) == Ok(emails)

\* "except Exception as e" of get_unread_emails: the value returned
get_unread_emails_except(e, emails) == Ok(<<>>)

\* call_tool once get_unread_emails has returned or raised
listing_done(r) ==
    IF r.ok THEN Returned(Success(r.val)) ELSE call_tool_except(r.exc)

(***************************************************************************)
(* Provider calls: each is issued, then returns or raises.                 *)
(***************************************************************************)
Call(o, arg) == [ev |-> "call", op |-> o, arg |-> arg]
Return(o) == [ev |-> "return", op |-> o, arg |-> None]
Raised(o) == [ev |-> "raise", op |-> o, arg |-> None]

\* texts a caller hands to a helper: every short one, and some longer ones
Samples ==
    {<<"a", "@", " ", "b", ".", "a", "a">>,
     <<"a", " ", "b", "@", "b", ".", "a", "a">>,
     <<"a", " ", "<", "a", "@", "b", ".", "a", "a", ">">>,
     <<"a", "@", "b", ".", "a", "a", ",", " ", "b", "@", "a", ".", "b", "b">>,
     <<",", "a", "@", "b", ".", "a", "a">>,
     <<"a", "@", "b", "@", "a", ".", "b", "b">>}

HelperInputs == Strings(MaxLen) \cup Samples

HelperNames == {"is_valid_email_address", "build_raw_email"}

(***************************************************************************)
(* State.                                                                  *)
(***************************************************************************)
VARIABLES
    pc,        \* "idle", or the provider call call_tool is blocked in
    op,        \* the operation last started: its name and arguments
    calls,     \* the provider calls of that operation: issued, returned, raised
    response,  \* what call_tool returned
    raised,    \* the exception call_tool let out to its caller
    messages,  \* get_unread_emails: the ids listed
    emails,    \* get_unread_emails: the summaries appended so far
    original,  \* create_draft_reply: the message fetched
    failure,   \* history: where get_unread_emails failed
    result     \* what a helper called on its own returned

vars == <<pc, op, calls, response, raised, messages, emails, original, failure, result>>

NoResult == <<>>

\* the server waits for a tool call, or a helper is about to be called on its
\* own with some text
Init ==
    /\ op \in {[name |-> None, arguments |-> <<>>]}
              \cup {[name |-> h, arguments |-> t] : h \in HelperNames, t \in HelperInputs}
    /\ pc = IF op.name = None THEN "idle" ELSE "helper"
    /\ calls = <<>>
    /\ response = NoResponse
    /\ raised = NoException
    /\ messages = <<>>
    /\ emails = <<>>
    /\ original = NoMessage
    /\ failure = "none"
    /\ result = NoResult

\* missing_required as "not any([...])"
missing_required_any(message_id, thread_id, reply_body) ==
    Falsy(message_id) /\ Falsy(thread_id) /\ Falsy(reply_body)

\* "not all([message_id, thread_id, reply_body])"
missing_required(message_id, thread_id, reply_body) ==
    Falsy(message_id) \/ Falsy(thread_id) \/ Falsy(reply_body)

\* call_tool up to its first provider call or its return
call_tool_begin(name, arguments) ==
    LET args == IF arguments = <<>> THEN EmptyMap ELSE arguments[1]
    IN  CASE name = "get_unread_emails" ->
               LET max_results == int(Get(args, "max_results", Num(DEFAULT_MAX_RESULTS)))
               IN  IF max_results.ok
                   THEN [pc |-> "list", calls |-> <<Call("list", max_results.val)>>,
                         out |-> Returned(NoResponse)]
                   ELSE [pc |-> "idle", calls |-> <<>>,
                         out |-> call_tool_except(max_results.exc)]
          [] name = "create_draft_reply" ->
               LET message_id == Get(args, "message_id", None)
                   thread_id  == Get(args, "thread_id", None)
                   reply_body == Get(args, "reply_body", None)
               IN  IF missing_required(message_id, thread_id, reply_body)
                   THEN [pc |-> "idle", calls |-> <<>>,
                         out |-> Returned(Error(ErrMissing))]
                   ELSE [pc |-> "original", calls |-> <<Call("get", message_id)>>,
                         out |-> Returned(NoResponse)]
          [] OTHER ->
               [pc |-> "idle", calls |-> <<>>,
                out |-> Returned(Error(UnknownTool(name)))]

CallTool(name, arguments) ==
    /\ pc = "idle"
    /\ LET st == call_tool_begin(name, arguments)
       IN  /\ pc' = st.pc
           /\ calls' = st.calls
           /\ response' = st.out.response
           /\ raised' = st.out.raised
    /\ op' = [name |-> name, arguments |-> arguments]
    /\ messages' = <<>>
    /\ emails' = <<>>
    /\ original' = NoMessage
    /\ failure' = "none"
    /\ result' = NoResult

\* call_tool returns (or lets an exception out)
Finish(out) ==
    /\ pc' = "idle"
    /\ response' = out.response
    /\ raised' = out.raised

(***************************************************************************)
(* get_unread_emails.                                                      *)
(***************************************************************************)
\* next_id walking the listing from its end
next_id_reversed(ids, n) == ids[Len(ids) - n]

\* "for msg in messages": the id fetched once n summaries are appended
next_id(ids, n) == ids[n + 1]

\* the provider answers the list call with at most maxResults ids
ListReturns(ids) ==
    /\ pc = "list"
    /\ Len(ids) <= calls[1].arg
    /\ messages' = ids
    /\ IF ids = <<>>
       THEN /\ calls' = Append(calls, Return("list"))
            /\ Finish(listing_done(Ok(<<>>)))
       ELSE /\ calls' = calls \o <<Return("list"), Call("get", next_id(ids, 0))>>
            /\ pc' = "get"
            /\ UNCHANGED <<response, raised>>
    /\ UNCHANGED <<op, emails, original, failure, result>>

ListRaises ==
    /\ pc = "list"
    /\ calls' = Append(calls, Raised("list"))
    /\ failure' = "list"
    /\ Finish(listing_done(get_unread_emails_except(ErrProvider, emails)))
    /\ UNCHANGED <<op, messages, emails, original, result>>

\* the provider answers the fetch of the next listed id
GetReturns(message) ==
    /\ pc = "get"
    /\ LET s == email_summary(message)
       IN  IF ~s.ok
           THEN /\ calls' = Append(calls, Return("get"))
                /\ failure' = "decode"
                /\ Finish(listing_done(get_unread_emails_except(s.exc, emails)))
                /\ UNCHANGED emails
           ELSE IF Len(emails) + 1 < Len(messages)
           THEN /\ calls' = calls \o <<Return("get"),
                                       Call("get", next_id(messages, Len(emails) + 1))>>
                /\ emails' = Append(emails, s.val)
                /\ UNCHANGED <<pc, response, raised, failure>>
           ELSE /\ calls' = Append(calls, Return("get"))
                /\ emails' = Append(emails, s.val)
                /\ Finish(listing_done(Ok(Append(emails, s.val))))
                /\ UNCHANGED failure
    /\ UNCHANGED <<op, messages, original, result>>

GetRaises ==
    /\ pc = "get"
    /\ calls' = Append(calls, Raised("get"))
    /\ failure' = "get"
    /\ Finish(listing_done(get_unread_emails_except(ErrProvider, emails)))
    /\ UNCHANGED <<op, messages, emails, original, result>>

(***************************************************************************)
(* create_draft_reply.                                                     *)
(***************************************************************************)
\* create_draft_reply goes on with the draft composed, or its exception
Composed(draft) ==
    IF draft.ok
    THEN /\ calls' = calls \o <<Return("get"), Call("create", draft.val)>>
         /\ pc' = "draft"
         /\ UNCHANGED <<response, raised>>
    ELSE /\ calls' = Append(calls, Return("get"))
         /\ Finish(call_tool_except(draft.exc))

OriginalReturns(message) ==
    /\ pc = "original"
    /\ original' = message
    /\ Composed(compose_draft(message, Get(op.arguments[1], "thread_id", None),
                              Get(op.arguments[1], "reply_body", None)))
    /\ UNCHANGED <<op, messages, emails, failure, result>>

OriginalRaises ==
    /\ pc = "original"
    /\ calls' = Append(calls, Raised("get"))
    /\ Finish(call_tool_except(ErrProvider))
    /\ UNCHANGED <<op, messages, emails, original, failure, result>>

\* the draft record drafts().create answers with
DraftRecord(body) ==
    [id |-> "d1", message |-> [id |-> "m9", threadId |-> body.message.threadId]]

DraftReturns ==
    /\ pc = "draft"
    /\ calls' = Append(calls, Return("create"))
    /\ Finish(Returned(Success(DraftRecord(calls[Len(calls)].arg))))
    /\ UNCHANGED <<op, messages, emails, original, failure, result>>

\* DraftRaises as a create_draft_reply that tries drafts().create again
DraftRaises_retry ==
    /\ pc = "draft"
    /\ calls' = calls \o <<Raised("create"), Call("create", calls[Len(calls)].arg)>>
    /\ UNCHANGED <<pc, op, response, raised, messages, emails, original, failure, result>>

DraftRaises ==
    /\ pc = "draft"
    /\ calls' = Append(calls, Raised("create"))
    /\ Finish(call_tool_except(ErrProvider))
    /\ UNCHANGED <<op, messages, emails, original, failure, result>>

(***************************************************************************)
(* The helpers called on their own.                                        *)
(***************************************************************************)
\* a helper, called with the text the initial state holds, returns
HelperReturns(name, value) ==
    /\ pc = "helper"
    /\ op.name = name
    /\ pc' = "returned"
    /\ result' = <<value>>
    /\ UNCHANGED <<op, calls, response, raised, messages, emails, original, failure>>

IsValidEmailAddress ==
    HelperReturns("is_valid_email_address", is_valid_email_address(op.arguments))

BuildRawEmail ==
    HelperReturns("build_raw_email",
                  build_raw_email(op.arguments, <<"H", "i">>, "hi", NoneText, NoneText))

Next ==
    \/ \E name \in ToolNames, arguments \in Arguments : CallTool(name, arguments)
    \/ \E ids \in Listings(MaxMsgs) : ListReturns(ids)
    \/ ListRaises
    \/ /\ pc = "get"
       /\ \E message \in ListedMessages(calls[Len(calls)].arg) : GetReturns(message)
    \/ GetRaises
    \/ /\ pc = "original"
       /\ \E message \in OriginalMessages(calls[Len(calls)].arg) :
              OriginalReturns(message)
    \/ OriginalRaises
    \/ DraftReturns
    \/ DraftRaises
    \/ IsValidEmailAddress
    \/ BuildRawEmail

Spec == Init /\ [][Next]_vars
(***************************************************************************)
(* Properties.                                                             *)
(***************************************************************************)
Dispatched(name) == op.name = name
Listing == Dispatched("get_unread_emails")
Replying == Dispatched("create_draft_reply")
\* call_tool has ended
Ended == pc = "idle" /\ op.name \in ToolNames

IsCall(i, o) == calls[i].ev = "call" /\ calls[i].op = o
CallsOf(o) == {i \in 1..Len(calls) : IsCall(i, o)}
SomeRaise == \E i \in 1..Len(calls) : calls[i].ev = "raise"
IsEnvelope(r) == r.type = "text" /\ r.kind \in {"payload", "error"}

\* the values of the headers of one name, in order
RECURSIVE ValuesOf(_, _)
ValuesOf(headers, name) ==
    IF headers = <<>> THEN <<>>
    ELSE (IF Head(headers).name = name THEN <<Head(headers).value>> ELSE <<>>)
         \o ValuesOf(Tail(headers), name)

\* C1: every dispatch, whatever the name, the arguments and the provider's
\* answers, ends with a response envelope (a success payload or an error
\* message, "Unknown tool: <name>" for a name that is no tool) and no exception
\* ever leaves call_tool.
C1_DispatcherNeverRaises ==
    /\ raised = NoException
    /\ Ended => IsEnvelope(response)
    /\ (Ended /\ ~Listing /\ ~Replying) => response = Error(UnknownTool(op.name))

\* a provider failure was caught and rendered as an error envelope
C1_Witness ==
    /\ Ended /\ Replying /\ SomeRaise
    /\ response.kind = "error"
    /\ StartsWith(response.text, <<"Tool", "execution", "failed:">>)

OriginalFetched == Replying /\ original.id # None
OriginalHeaders ==
    IF original.payload = <<>> THEN <<>> ELSE original.payload[1].headers
NoUsableRecipient ==
    /\ sanitize_single_recipient(header_value(OriginalHeaders, "Reply-To")) = <<>>
    /\ sanitize_single_recipient(header_value(OriginalHeaders, "From")) = <<>>
CouldNotExtract == <<"could", "not", "extract", "a", "valid", "recipient">>

\* C2: when create_draft_reply is dispatched with its three arguments and the
\* original fetched has no usable recipient (Reply-To and From both sanitize
\* to nothing, or are missing), drafts().create is not called in that dispatch
\* and the response is an error envelope whose message contains "could not
\* extract a valid recipient".
C2_NoRecipientNoDraft ==
    (OriginalFetched /\ NoUsableRecipient) =>
        /\ CallsOf("create") = {}
        /\ Ended
        /\ response.kind = "error"
        /\ HasInfix(response.text, CouldNotExtract)

\* the original carries neither a Reply-To nor a From header
C2_Witness ==
    /\ OriginalFetched
    /\ original.payload # <<>>
    /\ ValuesOf(OriginalHeaders, "Reply-To") = <<>>
    /\ ValuesOf(OriginalHeaders, "From") = <<>>
    /\ response.kind = "error"

ArgumentMissing ==
    \/ op.arguments = <<>>
    \/ \E k \in ReplyKeys : k \notin DOMAIN op.arguments[1]

\* C3: when create_draft_reply is dispatched with message_id, thread_id or
\* reply_body missing, the dispatcher returns an error result and issues no
\* provider call during that dispatch.
C3_MissingArgumentNoCall ==
    (Replying /\ ArgumentMissing) =>
        /\ calls = <<>>
        /\ Ended
        /\ response = Error(ErrMissing)

\* only thread_id is missing
C3_Witness ==
    /\ Replying
    /\ op.arguments # <<>>
    /\ DOMAIN op.arguments[1] = {"message_id", "reply_body"}
    /\ op.arguments[1]["message_id"] = "m1"
    /\ response.kind = "error"

\* create_draft_reply raised: call_tool ended without a draft record returned
ReplyFailed ==
    /\ Ended /\ Replying /\ calls # <<>>
    /\ calls[Len(calls)] # Return("create")

RECURSIVE FetchCalls(_)
FetchCalls(ids) ==
    IF ids = <<>> THEN <<>>
    ELSE <<Call("get", Head(ids)), Return("get")>> \o FetchCalls(Tail(ids))

\* one list call, then one fetch per listed id in listing order, each call
\* completed before the next is issued
ExpectedCalls(ids) ==
    <<Call("list", calls[1].arg), Return("list")>> \o FetchCalls(ids)

\* each provider call is issued only when the one before it has completed
Sequential ==
    \A i \in 1..Len(calls) :
        IF i % 2 = 1
        THEN calls[i].ev = "call"
        ELSE calls[i].ev \in {"return", "raise"} /\ calls[i].op = calls[i - 1].op

\* C5 as stated: a listing of N ids in which no provider call fails performs
\* exactly N+1 provider calls, the list call then one fetch per id in listing
\* order, and no createDraft call.
C5_AsStated ==
    (Ended /\ Listing /\ calls # <<>> /\ ~SomeRaise) =>
        calls = ExpectedCalls(messages)

\* C5: provider calls are strictly sequential, and a listing of N ids in
\* which no provider call fails and every fetched message is summarised
\* without error (its payload is there and its body decodes) performs exactly
\* N+1 provider calls: the list call, then one fetch per listed id in listing
\* order, and no createDraft call.
C5_SequentialCalls ==
    /\ Listing => Sequential
    /\ (Ended /\ Listing /\ calls # <<>> /\ failure = "none") =>
           calls = ExpectedCalls(messages)

\* two ids were listed and both fetched
C5_Witness ==
    /\ Ended /\ Listing /\ failure = "none"
    /\ Len(messages) = 2
    /\ Len(calls) = 6
    /\ response.kind = "payload"

\* the message handed to drafts().create
DraftedRaw == calls[3].arg.message.raw
Drafted == Replying /\ CallsOf("create") # {}
OldMessageId == header_value(OriginalHeaders, "Message-ID")
OldReferences == header_value(OriginalHeaders, "References")

\* C6 as stated: in_reply_to is the Message-ID or absent when that is empty;
\* with in_reply_to present the new References is the old References, a single
\* space and in_reply_to, or in_reply_to alone when there were none; with
\* in_reply_to absent References passes through unchanged.
C6_AsStated ==
    Drafted =>
        /\ ValuesOf(DraftedRaw.headers, "In-Reply-To") =
               (IF OldMessageId = <<>> THEN <<>> ELSE <<OldMessageId>>)
        /\ ValuesOf(DraftedRaw.headers, "References") =
               (IF OldMessageId # <<>>
                THEN (IF OldReferences # <<>>
                      THEN <<OldReferences \o <<" ">> \o OldMessageId>>
                      ELSE <<OldMessageId>>)
                ELSE (IF OldReferences # <<>> THEN <<OldReferences>> ELSE <<>>))

\* C6: as stated, except that the old References joined by a single space
\* with in_reply_to has its leading and trailing white space removed.
C6_ThreadingHeaders ==
    Drafted =>
        /\ ValuesOf(DraftedRaw.headers, "In-Reply-To") =
               (IF OldMessageId = <<>> THEN <<>> ELSE <<OldMessageId>>)
        /\ ValuesOf(DraftedRaw.headers, "References") =
               (IF OldMessageId # <<>>
                THEN (IF OldReferences # <<>>
                      THEN <<Strip(OldReferences \o <<" ">> \o OldMessageId)>>
                      ELSE <<OldMessageId>>)
                ELSE (IF OldReferences # <<>> THEN <<OldReferences>> ELSE <<>>))

\* a reply to a message that has both a Message-ID and References
C6_Witness ==
    /\ Drafted
    /\ OldMessageId = <<"<", "1", ">">>
    /\ OldReferences = <<"<", "0", ">">>
    /\ ValuesOf(DraftedRaw.headers, "References") =
           << <<"<", "0", ">", " ", "<", "1", ">">> >>

HelperReturned(name) == pc = "returned" /\ op.name = name

\* C7: is_valid_email_address(value) is true only if value is not empty,
\* parses to a non-empty address with an "@", and has no space anywhere in
\* value itself.
C7_NoSpaceInRawValue ==
    (HelperReturned("is_valid_email_address") /\ result[1]) =>
        /\ op.arguments # <<>>
        /\ parseaddr(op.arguments) # <<>>
        /\ Contains(parseaddr(op.arguments), "@")
        /\ ~Contains(op.arguments, " ")

\* one address, checked: not empty, an "@", no space, no comma
SingleValidAddress(t) ==
    /\ t # <<>>
    /\ is_valid_email_address(t)
    /\ Contains(t, "@")
    /\ ~Contains(t, " ")
    /\ ~Contains(t, ",")

\* C8: build_raw_email sanitizes its recipient itself, whoever calls it: when
\* the recipient sanitizes to nothing it raises and builds no message, else
\* the To header of the message is the sanitized address and nothing else;
\* and every message handed to drafts().create has one To header, holding a
\* single valid address.
C8_EncoderSanitizesRecipient ==
    /\ HelperReturned("build_raw_email") =>
           IF sanitize_single_recipient(op.arguments) = <<>>
           THEN ~result[1].ok /\ result[1].exc = ErrInvalidTo
           ELSE /\ result[1].ok
                /\ ValuesOf(result[1].val.headers, "To") =
                       <<sanitize_single_recipient(op.arguments)>>
                /\ SingleValidAddress(sanitize_single_recipient(op.arguments))
    /\ Drafted =>
           /\ Len(ValuesOf(DraftedRaw.headers, "To")) = 1
           /\ SingleValidAddress(ValuesOf(DraftedRaw.headers, "To")[1])

\* the encoder was handed a display-name form and kept the address only
C8_Witness ==
    /\ HelperReturned("build_raw_email")
    /\ result[1].ok
    /\ op.arguments = <<"a", " ", "<", "a", "@", "b", ".", "a", "a", ">">>
    /\ ValuesOf(result[1].val.headers, "To") = << <<"a", "@", "b", ".", "a", "a">> >>

\* C9: get_unread_emails returns all or nothing: the list returned holds one
\* summary per listed id, in listing order, or is empty; never only the
\* summaries made before a failure.
C9_AllOrNothing ==
    (Ended /\ Listing /\ response.kind = "payload") =>
        \/ response.text = <<>>
        \/ /\ Len(response.text) = Len(messages)
           /\ \A i \in 1..Len(messages) : response.text[i].id = messages[i]

\* the second fetch failed after the first message was summarised
C9_Witness ==
    /\ Ended /\ Listing /\ failure = "get"
    /\ Len(emails) >= 1
    /\ response = Success(<<>>)

\* C10: in a create_draft_reply dispatch drafts().create is called at most
\* once, and only after the fetch of the message_id given has returned; when
\* that fetch raises, drafts().create is not called and an error envelope is
\* returned.
C10_DraftAfterFetch ==
    Replying =>
        /\ Cardinality(CallsOf("create")) <= 1
        /\ \A i \in CallsOf("create") :
               /\ i = 3
               /\ calls[1] = Call("get", op.arguments[1]["message_id"])
               /\ calls[2] = Return("get")
        /\ (calls # <<>> /\ Len(calls) >= 2 /\ calls[2] = Raised("get")) =>
               /\ CallsOf("create") = {}
               /\ Ended
               /\ response.kind = "error"

\* the draft was created after the original was fetched
C10_Witness ==
    /\ Ended /\ Replying
    /\ Len(calls) = 4
    /\ calls[4] = Return("create")
    /\ response.kind = "payload"
=============================================================================
